---- MODULE Spec2Model ----
(***************************************************************************)
(* Model of the two Ansible modules library/cisco_snmp_cdp.py and          *)
(* library/cisco_snmp_switchport.py: one invocation of main() against an   *)
(* SNMP device, step by step (argument validation, session construction,   *)
(* the ifDescr walk, and one read-compare-write cycle per requested        *)
(* setting), followed by re-runs of the same task against the same device. *)
(* SpecConc runs two such invocations at the same time on one device.      *)
(*                                                                         *)
(* Encoding of Python values:                                              *)
(*   - a module parameter is a string; None is the string NONE;            *)
(*   - access_vlan / native_vlan are sequences of one-character strings so *)
(*     that int() can be computed digit by digit; None is NONE_TEXT;       *)
(*   - an OID "base.suffix" is the pair <<base, suffix>>;                  *)
(*   - the local variable `interface` is a string, FALSE_OBJ after         *)
(*     `interface = False`, or UNBOUND before any assignment.              *)
(***************************************************************************)
EXTENDS Integers, Sequences, FiniteSets, TLC

\* ------------------------------------------------------------- bounds ----
MaxIfIndex == 2
MaxRuns == 2

\* ---------------------------------------------------- Python encodings ----
NONE == "<None>"
NONE_TEXT == <<"<None>">>
FALSE_OBJ == "<False>"
UNBOUND == "<unbound>"

Truthy(s) == s # NONE /\ s # ""

TruthyText(t) == t # NONE_TEXT /\ Len(t) > 0

Digits == <<"0", "1", "2", "3", "4", "5", "6", "7", "8", "9">>

IsDigit(c) == \E i \in 1..Len(Digits) : Digits[i] = c

DigitValue(c) == (CHOOSE i \in 1..Len(Digits) : Digits[i] = c) - 1

IsNumeric(t) == Len(t) > 0 /\ \A i \in 1..Len(t) : IsDigit(t[i])

\* Mutant: only the last digit is converted.
int_lastdigit(t) == DigitValue(t[Len(t)])

RECURSIVE int(_)
int(t) == IF Len(t) = 0 THEN 0
          ELSE 10 * int(SubSeq(t, 1, Len(t) - 1)) + DigitValue(t[Len(t)])

str(i) == Digits[i + 1]

\* ------------------------------------------------------- the catalogs ----
CDP_STATE == [label \in {"enabled", "disabled"} |->
                 IF label = "enabled" THEN 1 ELSE 2]

PORT_MODE == [label \in {"trunk", "access", "desirable", "auto",
                         "trunk-nonegotiate"} |->
                 CASE label = "trunk" -> 1
                   [] label = "access" -> 2
                   [] label = "desirable" -> 3
                   [] label = "auto" -> 4
                   [] label = "trunk-nonegotiate" -> 5]

ModeChoices == {"access", "trunk", "desireable", "auto", "trunk-nonegotiate"}

CdpChoices == {"enabled", "disabled"}

\* Mutant: the access VLAN is handled before the mode.
SettingOrder_swapped(module) ==
    IF module = "cdp" THEN <<"cdp_global", "cdp_interface">>
    ELSE <<"access_vlan", "mode", "native_vlan">>

\* Settings in the order main() looks at them.
SettingOrder(module) ==
    IF module = "cdp" THEN <<"cdp_global", "cdp_interface">>
    ELSE <<"mode", "access_vlan", "native_vlan">>

BaseOid(setting) ==
    CASE setting = "cdp_global" -> "cdpGlobalRun"
      [] setting = "cdp_interface" -> "cdpInterfaceEnable"
      [] setting = "mode" -> "vlanTrunkPortDynamicState"
      [] setting = "access_vlan" -> "vmVlan"
      [] setting = "native_vlan" -> "vlanTrunkPortNativeVlan"

InterfaceBases == {"cdpInterfaceEnable", "vlanTrunkPortDynamicState",
                   "vmVlan", "vlanTrunkPortNativeVlan"}

\* ---------------------------------------------------------- the device ----
IfIndices == {str(i) : i \in 1..MaxIfIndex}

IfNames == {"Gi0/1", "Gi0/2"}

DeviceOids == {<<"cdpGlobalRun", "0">>} \cup (InterfaceBases \X IfIndices)

\* The value every OID of each kind holds on a device: CDP state, port mode,
\* access VLAN, native VLAN.
InitDevice(c, m, a, n) ==
    [x \in DeviceOids |->
        CASE x[1] = "cdpGlobalRun" -> c
          [] x[1] = "cdpInterfaceEnable" -> c
          [] x[1] = "vlanTrunkPortDynamicState" -> m
          [] x[1] = "vmVlan" -> a
          [] x[1] = "vlanTrunkPortNativeVlan" -> n]

\* Devices an invocation may meet: CDP on, ports negotiating in VLAN 1;
\* CDP off, access ports in VLAN 12; CDP on, ports with access VLAN 12 and
\* native VLAN 1.
InitDevices == {InitDevice(1, 4, 1, 1), InitDevice(2, 2, 12, 12),
                InitDevice(1, 3, 12, 1)}

\* The ifDescr column as a walk returns it: one varbind list per row, in
\* increasing index order; a row is present when it has a description.  The
\* column is fixed for the life of the device; its content is left open
\* until the first walk reads it.
ABSENT == "<absent>"

RECURSIVE WalkRows(_, _)
WalkRows(descr, i) ==
    IF i > MaxIfIndex THEN <<>>
    ELSE (IF descr[i] = ABSENT THEN <<>>
          ELSE << << <<(<<"ifDescr", str(i)>>), descr[i]>> >> >>)
         \o WalkRows(descr, i + 1)

VarTables == {WalkRows(d, 1) : d \in [1..MaxIfIndex -> IfNames \cup {ABSENT}]}

\* ------------------------------------------------------- the arguments ----
VlanTexts == {NONE_TEXT, <<"1", "2">>, <<"a", "b", "c">>}

InterfaceIdInputs == {NONE} \cup IfIndices

InterfaceNameInputs == {NONE, "", "Gi0/1"}

SwitchportArgs ==
    [module : {"switchport"},
     mode : ModeChoices \cup {NONE, "desirable"},
     interface_id : InterfaceIdInputs,
     interface_name : InterfaceNameInputs,
     access_vlan : VlanTexts,
     native_vlan : VlanTexts,
     cdp_global : {NONE},
     cdp_interface : {NONE}]

CdpArgs ==
    [module : {"cdp"},
     mode : {NONE},
     interface_id : InterfaceIdInputs,
     interface_name : InterfaceNameInputs,
     access_vlan : {NONE_TEXT},
     native_vlan : {NONE_TEXT},
     cdp_global : CdpChoices \cup {NONE, "on"},
     cdp_interface : CdpChoices \cup {NONE}]

AllArgs == SwitchportArgs \cup CdpArgs

Count(args, keys) == Cardinality({k \in keys : args[k] # NONE})

\* AnsibleModule(argument_spec, mutually_exclusive, required_one_of)
ArgumentsValid(args) ==
    IF args.module = "switchport"
    THEN /\ args.mode \in ModeChoices
         /\ Count(args, {"interface_id", "interface_name"}) = 1
    ELSE /\ args.cdp_global \in CdpChoices \cup {NONE}
         /\ args.cdp_interface \in CdpChoices \cup {NONE}
         /\ Count(args, {"interface_id", "interface_name", "cdp_global"}) = 1
         /\ Count(args, {"cdp_interface", "cdp_global"}) = 1

Requested(args, setting) ==
    IF setting \in {"access_vlan", "native_vlan"}
    THEN TruthyText(args[setting])
    ELSE Truthy(args[setting])

\* ------------------------------------------------------------ the state ----
VARIABLES device,        \* the device: OID -> integer value
          m_args,        \* module.params of the running invocation
          pc,            \* idle, resolve, main, get, set or end
          step,          \* index in SettingOrder of the setting being handled
          interface,     \* main()'s local `interface`
          ifDescr,       \* the device's ifDescr column, once it has been walked
          vartable,      \* what dev.getnext(o.ifDescr) returned
          oid,           \* main()'s local `oid`
          desired_state, \* main()'s local `desired_state`
          current_state, \* set_state()'s local `current_state`
          has_changed,   \* main()'s local `has_changed`
          result,        \* how it ended: exit_json, fail_json or traceback
          log,           \* SNMP operations issued by the running invocation
          flags,         \* values returned by the set_state calls so far
          run,           \* number of invocations started
          dev0,          \* the device as it was when the invocation started
          prev           \* outcome of the previous invocation

vars == <<device, ifDescr, m_args, pc, step, interface, vartable, oid,
          desired_state, current_state, has_changed, result, log, flags, run,
          dev0, prev>>

NoResult == [status |-> "none", stage |-> "", msg |-> "", changed |-> FALSE]

NoArgs == [module |-> "", mode |-> NONE, interface_id |-> NONE,
           interface_name |-> NONE, access_vlan |-> NONE_TEXT,
           native_vlan |-> NONE_TEXT, cdp_global |-> NONE,
           cdp_interface |-> NONE]

NoOid == <<"", "">>

Op(op, x, val, ok) == [op |-> op, oid |-> x, val |-> val, ok |-> ok]

\* module.fail_json(msg=...): report the failure and leave the process.
fail_json(stage, msg) ==
    /\ result' = [status |-> "fail", stage |-> stage, msg |-> msg,
                  changed |-> FALSE]
    /\ pc' = "end"

\* An exception nothing catches: the interpreter prints a traceback and exits.
Uncaught(exception) ==
    /\ result' = [status |-> "crash", stage |-> "uncaught", msg |-> exception,
                  changed |-> FALSE]
    /\ pc' = "end"

\* Mutant: the accumulated flag is never raised.
changed_status_kept(changed, has_changed_) == has_changed_

\* Mutant: the flag of the last setting replaces the accumulated one.
changed_status_last(changed, has_changed_) == changed

changed_status(changed, has_changed_) ==
    IF changed = TRUE THEN TRUE ELSE has_changed_

Init ==
    /\ device \in InitDevices
    /\ ifDescr = [walked |-> FALSE, rows |-> <<>>]
    /\ m_args = NoArgs
    /\ pc = "idle"
    /\ step = 0
    /\ interface = UNBOUND
    /\ vartable = <<>>
    /\ oid = NoOid
    /\ desired_state = 0
    /\ current_state = 0
    /\ has_changed = FALSE
    /\ result = NoResult
    /\ log = <<>>
    /\ flags = <<>>
    /\ run = 0
    /\ dev0 = device
    /\ prev = [ok |-> FALSE, changed |-> FALSE, interface |-> UNBOUND]

\* main(), from AnsibleModule(...) to `has_changed = False`.
Enter(args, sessionOk) ==
    /\ m_args' = args
    /\ run' = run + 1
    /\ step' = 1
    /\ interface' = UNBOUND
    /\ vartable' = <<>>
    /\ oid' = NoOid
    /\ desired_state' = 0
    /\ current_state' = 0
    /\ has_changed' = FALSE
    /\ log' = <<>>
    /\ flags' = <<>>
    /\ dev0' = device
    /\ prev' = [ok |-> result.status = "exit", changed |-> result.changed,
                interface |-> interface]
    /\ IF ~ArgumentsValid(args)
       THEN fail_json("arguments", "invalid arguments")
       ELSE IF ~sessionOk
            THEN fail_json("session", "str(err)")
            ELSE pc' = "resolve" /\ result' = NoResult
    /\ UNCHANGED <<device, ifDescr>>

\* A task of a playbook runs one of the two modules.
Invoke ==
    /\ pc = "idle"
    /\ \E args \in AllArgs, sessionOk \in BOOLEAN : Enter(args, sessionOk)

\* The same task is run again against the same device.
Rerun ==
    /\ pc = "end"
    /\ run < MaxRuns
    /\ \E sessionOk \in BOOLEAN : Enter(m_args, sessionOk)

\* ----------------------------------------------- interface resolution ----
\* oid.rsplit('.', 1)[-1]
rsplit(x) == x[Len(x)]

\* for oid, val in varbinds: if m_args['interface_name'] == val: interface = ...
RECURSIVE ScanVarbinds(_, _, _)
ScanVarbinds(varbinds, name, found) ==
    IF Len(varbinds) = 0 THEN found
    ELSE ScanVarbinds(Tail(varbinds), name,
                      IF name = Head(varbinds)[2]
                      THEN rsplit(Head(varbinds)[1]) ELSE found)

\* Mutant: the scan stops at the first row that matches.
RECURSIVE ScanTable_first(_, _, _)
ScanTable_first(table, name, found) ==
    IF Len(table) = 0 \/ found # "<False>" THEN found
    ELSE ScanTable_first(Tail(table), name,
                         ScanVarbinds(Head(table), name, found))

\* for varbinds in vartable: ...
RECURSIVE ScanTable(_, _, _)
ScanTable(table, name, found) ==
    IF Len(table) = 0 THEN found
    ELSE ScanTable(Tail(table), name, ScanVarbinds(Head(table), name, found))

\* Mutant: the interface id given by the caller is not used.
WithInterfaceId_ignored(args, found) == found

\* if m_args['interface_id']: interface = m_args['interface_id']
WithInterfaceId(args, found) ==
    IF Truthy(args.interface_id) THEN args.interface_id ELSE found

\* Mutant: the check after the loop is missing.
NotFound_never(found) == FALSE

\* `if interface == False:` (cdp: `if interface is False:`)
NotFound(found) == found = FALSE_OBJ

\* No interface_name: the walk is skipped.
SkipWalk ==
    /\ pc = "resolve"
    /\ ~Truthy(m_args.interface_name)
    /\ interface' = WithInterfaceId(m_args, interface)
    /\ pc' = "main"
    /\ UNCHANGED <<device, ifDescr, m_args, step, vartable, oid,
                   desired_state,
                   current_state, has_changed, result, log, flags, run, dev0,
                   prev>>

\* Mutant: the exception of the walk is ignored and main() goes on.
WalkAbort_ignored(msg) ==
    /\ pc' = "main"
    /\ UNCHANGED result

\* `except Exception as err: module.fail_json(msg=str(err))` around the walk
WalkAbort(msg) == fail_json("walk", msg)

\* dev.getnext(o.ifDescr) raises.
WalkFails ==
    /\ pc = "resolve"
    /\ Truthy(m_args.interface_name)
    /\ interface' = FALSE_OBJ
    /\ log' = Append(log, Op("GETNEXT", <<"ifDescr", "">>, 0, FALSE))
    /\ WalkAbort("str(err)")
    /\ UNCHANGED <<device, ifDescr, m_args, step, vartable, oid,
                   desired_state, current_state, has_changed, flags, run,
                   dev0, prev>>

\* dev.getnext(o.ifDescr) returns the table, which is then scanned.
Walk ==
    /\ pc = "resolve"
    /\ Truthy(m_args.interface_name)
    /\ \E table \in VarTables :
         LET found == ScanTable(table, m_args.interface_name, FALSE_OBJ)
         IN /\ ifDescr.walked => table = ifDescr.rows
            /\ ifDescr' = [walked |-> TRUE, rows |-> table]
            /\ vartable' = table
            /\ log' = Append(log, Op("GETNEXT", <<"ifDescr", "">>, 0, TRUE))
            /\ IF NotFound(found)
               THEN /\ interface' = found
                    /\ fail_json("resolve", "Unable to find interface")
               ELSE /\ interface' = WithInterfaceId(m_args, found)
                    /\ pc' = "main"
                    /\ UNCHANGED result
    /\ UNCHANGED <<device, m_args, step, oid, desired_state, current_state,
                   has_changed, flags, run, dev0, prev>>

\* ------------------------------------------------------- the settings ----
Order == SettingOrder(m_args.module)

Setting == Order[step]

\* Mutant: every setting is addressed at instance 0.
ComposeOid_zero(setting, iface) == <<BaseOid(setting), "0">>

\* oid = o.<base> + ".0"   /   oid = o.<base> + "." + str(interface)
ComposeOid(setting, iface) ==
    IF setting = "cdp_global" THEN <<BaseOid(setting), "0">>
    ELSE <<BaseOid(setting), iface>>

\* The exception, if any, that building oid and desired_state raises.
ComposeError(args, setting, iface) ==
    CASE setting # "cdp_global" /\ iface = UNBOUND -> "UnboundLocalError"
      [] setting = "mode" /\ args.mode \notin DOMAIN PORT_MODE -> "KeyError"
      [] setting \in {"cdp_global", "cdp_interface"}
            /\ args[setting] \notin DOMAIN CDP_STATE -> "KeyError"
      [] setting \in {"access_vlan", "native_vlan"}
            /\ ~IsNumeric(args[setting]) -> "ValueError"
      [] OTHER -> ""

\* desired_state = PORT_MODE[...] / CDP_STATE[...] / int(...)
Encode(args, setting) ==
    CASE setting = "mode" -> PORT_MODE[args.mode]
      [] setting \in {"cdp_global", "cdp_interface"} -> CDP_STATE[args[setting]]
      [] OTHER -> int(args[setting])

\* `if m_args[<setting>]:` is false.
SkipSetting ==
    /\ pc = "main"
    /\ step <= Len(Order)
    /\ ~Requested(m_args, Setting)
    /\ step' = step + 1
    /\ UNCHANGED <<device, ifDescr, m_args, pc, interface, vartable, oid,
                   desired_state,
                   current_state, has_changed, result, log, flags, run, dev0,
                   prev>>

Compose ==
    /\ pc = "main"
    /\ step <= Len(Order)
    /\ Requested(m_args, Setting)
    /\ ComposeError(m_args, Setting, interface) = ""
    /\ oid' = ComposeOid(Setting, interface)
    /\ desired_state' = Encode(m_args, Setting)
    /\ pc' = "get"
    /\ UNCHANGED <<device, ifDescr, m_args, step, interface, vartable,
                   current_state,
                   has_changed, result, log, flags, run, dev0, prev>>

ComposeRaises ==
    /\ pc = "main"
    /\ step <= Len(Order)
    /\ Requested(m_args, Setting)
    /\ ComposeError(m_args, Setting, interface) # ""
    /\ Uncaught(ComposeError(m_args, Setting, interface))
    /\ UNCHANGED <<device, ifDescr, m_args, step, interface, vartable, oid,
                   desired_state, current_state, has_changed, log, flags, run,
                   dev0, prev>>

\* ---------------------------------------------------------- set_state ----
\* Mutant: the comparison is inverted.
NeedsWrite_inverted(current, desired) == current = desired

\* Mutant: the comparison is dropped and every read is followed by a write.
NeedsWrite_always(current, desired) == TRUE

\* `if current_state == desired_state: return False  else: ...`
NeedsWrite(current, desired) == current # desired

\* Mutant: the value read, not the desired one, is written back.
Written_current(dev, x, desired) == [dev EXCEPT ![x] = dev[x]]

\* Mutant: the device keeps the first value written to an OID.
Written_first(dev, x, desired) ==
    IF dev[x] = dev0[x] THEN [dev EXCEPT ![x] = desired] ELSE dev

\* dev.set(oid, desired_state) on the device
Written(dev, x, desired) == [dev EXCEPT ![x] = desired]

\* set_state returned `changed`; has_changed = changed_status(changed, ...)
Return(changed) ==
    /\ flags' = Append(flags, changed)
    /\ has_changed' = changed_status(changed, has_changed)
    /\ step' = step + 1
    /\ pc' = "main"

\* Mutant: the exception is swallowed and set_state returns True.
Abort_swallowed(stage, msg) ==
    /\ Return(TRUE)
    /\ UNCHANGED result

\* Mutant: the failed request is issued again.
Abort_retried(stage, msg) ==
    /\ UNCHANGED <<pc, result, step, flags, has_changed>>

\* `except ...: module.fail_json(msg=...)` inside set_state: nothing is
\* returned to main().
Abort(stage, msg) ==
    /\ fail_json(stage, msg)
    /\ UNCHANGED <<step, flags, has_changed>>

\* dev.get_value(oid) raises.
GetFails ==
    /\ pc = "get"
    /\ log' = Append(log, Op("GET", oid, 0, FALSE))
    /\ Abort("read", "str(err)")
    /\ UNCHANGED <<device, ifDescr, m_args, interface, vartable, oid,
                   desired_state,
                   current_state, run, dev0, prev>>

\* dev.get_value(oid) returns the desired value: return False.
GetEqual ==
    /\ pc = "get"
    /\ oid \in DOMAIN device
    /\ ~NeedsWrite(device[oid], desired_state)
    /\ current_state' = device[oid]
    /\ log' = Append(log, Op("GET", oid, device[oid], TRUE))
    /\ Return(FALSE)
    /\ UNCHANGED <<device, ifDescr, m_args, interface, vartable, oid,
                   desired_state,
                   result, run, dev0, prev>>

\* dev.get_value(oid) returns another value: go on to dev.set.
GetDiffers ==
    /\ pc = "get"
    /\ oid \in DOMAIN device
    /\ NeedsWrite(device[oid], desired_state)
    /\ current_state' = device[oid]
    /\ log' = Append(log, Op("GET", oid, device[oid], TRUE))
    /\ pc' = "set"
    /\ UNCHANGED <<device, ifDescr, m_args, step, interface, vartable, oid,
                   desired_state, has_changed, result, flags, run, dev0, prev>>

\* dev.set(oid, desired_state) succeeds: return True.
SetOk ==
    /\ pc = "set"
    /\ device' = Written(device, oid, desired_state)
    /\ log' = Append(log, Op("SET", oid, desired_state, TRUE))
    /\ Return(TRUE)
    /\ UNCHANGED <<ifDescr, m_args, interface, vartable, oid, desired_state,
                   current_state, result, run, dev0, prev>>

\* Mutant: the handler of a failed write puts the device back as the
\* invocation found it.
AfterFailedSet_rollback(dev, x, desired, applied) == dev0

\* The device after dev.set(oid, desired_state) raised: the request may or
\* may not have taken effect; the handler issues no further request.
AfterFailedSet(dev, x, desired, applied) ==
    IF applied THEN Written(dev, x, desired) ELSE dev

\* dev.set(oid, desired_state) raises.
SetFails ==
    /\ pc = "set"
    /\ \E applied \in BOOLEAN :
         device' = AfterFailedSet(device, oid, desired_state, applied)
    /\ log' = Append(log, Op("SET", oid, desired_state, FALSE))
    /\ Abort("write", "Unable to write to device")
    /\ UNCHANGED <<ifDescr, m_args, interface, vartable, oid, desired_state,
                   current_state, run, dev0, prev>>

\* return_status = {'changed': has_changed}; module.exit_json(**return_status)
ExitJson ==
    /\ pc = "main"
    /\ step > Len(Order)
    /\ result' = [status |-> "exit", stage |-> "", msg |-> "",
                  changed |-> has_changed]
    /\ pc' = "end"
    /\ UNCHANGED <<device, ifDescr, m_args, step, interface, vartable, oid,
                   desired_state, current_state, has_changed, log, flags, run,
                   dev0, prev>>

Next ==
    \/ Invoke
    \/ Rerun
    \/ SkipWalk
    \/ WalkFails
    \/ Walk
    \/ SkipSetting
    \/ Compose
    \/ ComposeRaises
    \/ GetFails
    \/ GetEqual
    \/ GetDiffers
    \/ SetOk
    \/ SetFails
    \/ ExitJson

Spec == Init /\ [][Next]_vars

TypeOK ==
    /\ pc \in {"idle", "resolve", "main", "get", "set", "end"}
    /\ run \in 0..MaxRuns
    /\ \A x \in DOMAIN device : device[x] \in Int

\* ------------------------------------------- two concurrent invocations ----
\* Two processes run main() against the same device at the same time.  Each
\* has its own locals, so m_args, pc, step, interface, oid, desired_state,
\* current_state, has_changed, result and flags are functions of the process;
\* device and log are shared, the log in the order the device saw the requests.
Procs == {"A", "B"}

\* Tasks that address the interface by id or the global CDP switch.
ConcArgs ==
    {a \in AllArgs : /\ ArgumentsValid(a)
                     /\ a.interface_name = NONE
                     /\ a.interface_id \in {NONE, "1"}
                     /\ a.mode \in {NONE, "access", "trunk"}
                     /\ a.access_vlan \in {NONE_TEXT, <<"1", "2">>}
                     /\ a.native_vlan = NONE_TEXT}

ConcOp(p, op, x, val, ok) ==
    [proc |-> p, op |-> op, oid |-> x, val |-> val, ok |-> ok]

ConcOrder(p) == SettingOrder(m_args[p].module)

ConcInit ==
    /\ device \in InitDevices
    /\ m_args \in [Procs -> ConcArgs]
    /\ pc = [p \in Procs |-> "main"]
    /\ step = [p \in Procs |-> 1]
    /\ interface = [p \in Procs |-> WithInterfaceId(m_args[p], UNBOUND)]
    /\ oid = [p \in Procs |-> NoOid]
    /\ desired_state = [p \in Procs |-> 0]
    /\ current_state = [p \in Procs |-> 0]
    /\ has_changed = [p \in Procs |-> FALSE]
    /\ result = [p \in Procs |-> NoResult]
    /\ flags = [p \in Procs |-> <<>>]
    /\ log = <<>>
    /\ dev0 = device
    /\ ifDescr = [walked |-> FALSE, rows |-> <<>>]
    /\ vartable = <<>>
    /\ run = 1
    /\ prev = [ok |-> FALSE, changed |-> FALSE, interface |-> UNBOUND]

ConcFrame == UNCHANGED <<m_args, interface, ifDescr, vartable, run, dev0, prev>>

ConcReturn(p, changed) ==
    /\ flags' = [flags EXCEPT ![p] = Append(@, changed)]
    /\ has_changed' = [has_changed EXCEPT ![p] = changed_status(changed, @)]
    /\ step' = [step EXCEPT ![p] = @ + 1]
    /\ pc' = [pc EXCEPT ![p] = "main"]

ConcAbort(p, stage, msg) ==
    /\ result' = [result EXCEPT ![p] = [status |-> "fail", stage |-> stage,
                                        msg |-> msg, changed |-> FALSE]]
    /\ pc' = [pc EXCEPT ![p] = "end"]
    /\ UNCHANGED <<step, flags, has_changed>>

ConcSkipSetting(p) ==
    /\ pc[p] = "main"
    /\ step[p] <= Len(ConcOrder(p))
    /\ ~Requested(m_args[p], ConcOrder(p)[step[p]])
    /\ step' = [step EXCEPT ![p] = @ + 1]
    /\ UNCHANGED <<device, pc, oid, desired_state, current_state, has_changed,
                   result, log, flags>>
    /\ ConcFrame

ConcCompose(p) ==
    /\ pc[p] = "main"
    /\ step[p] <= Len(ConcOrder(p))
    /\ Requested(m_args[p], ConcOrder(p)[step[p]])
    /\ ComposeError(m_args[p], ConcOrder(p)[step[p]], interface[p]) = ""
    /\ oid' = [oid EXCEPT
                 ![p] = ComposeOid(ConcOrder(p)[step[p]], interface[p])]
    /\ desired_state' = [desired_state EXCEPT
                           ![p] = Encode(m_args[p], ConcOrder(p)[step[p]])]
    /\ pc' = [pc EXCEPT ![p] = "get"]
    /\ UNCHANGED <<device, step, current_state, has_changed, result, log,
                   flags>>
    /\ ConcFrame

ConcGetFails(p) ==
    /\ pc[p] = "get"
    /\ log' = Append(log, ConcOp(p, "GET", oid[p], 0, FALSE))
    /\ ConcAbort(p, "read", "str(err)")
    /\ UNCHANGED <<device, oid, desired_state, current_state>>
    /\ ConcFrame

ConcGetEqual(p) ==
    /\ pc[p] = "get"
    /\ oid[p] \in DOMAIN device
    /\ ~NeedsWrite(device[oid[p]], desired_state[p])
    /\ current_state' = [current_state EXCEPT ![p] = device[oid[p]]]
    /\ log' = Append(log, ConcOp(p, "GET", oid[p], device[oid[p]], TRUE))
    /\ ConcReturn(p, FALSE)
    /\ UNCHANGED <<device, oid, desired_state, result>>
    /\ ConcFrame

ConcGetDiffers(p) ==
    /\ pc[p] = "get"
    /\ oid[p] \in DOMAIN device
    /\ NeedsWrite(device[oid[p]], desired_state[p])
    /\ current_state' = [current_state EXCEPT ![p] = device[oid[p]]]
    /\ log' = Append(log, ConcOp(p, "GET", oid[p], device[oid[p]], TRUE))
    /\ pc' = [pc EXCEPT ![p] = "set"]
    /\ UNCHANGED <<device, step, oid, desired_state, has_changed, result,
                   flags>>
    /\ ConcFrame

ConcSetOk(p) ==
    /\ pc[p] = "set"
    /\ device' = Written(device, oid[p], desired_state[p])
    /\ log' = Append(log, ConcOp(p, "SET", oid[p], desired_state[p], TRUE))
    /\ ConcReturn(p, TRUE)
    /\ UNCHANGED <<oid, desired_state, current_state, result>>
    /\ ConcFrame

ConcSetFails(p) ==
    /\ pc[p] = "set"
    /\ \E applied \in BOOLEAN :
         device' = AfterFailedSet(device, oid[p], desired_state[p], applied)
    /\ log' = Append(log, ConcOp(p, "SET", oid[p], desired_state[p], FALSE))
    /\ ConcAbort(p, "write", "Unable to write to device")
    /\ UNCHANGED <<oid, desired_state, current_state>>
    /\ ConcFrame

ConcExitJson(p) ==
    /\ pc[p] = "main"
    /\ step[p] > Len(ConcOrder(p))
    /\ result' = [result EXCEPT ![p] = [status |-> "exit", stage |-> "",
                                        msg |-> "",
                                        changed |-> has_changed[p]]]
    /\ pc' = [pc EXCEPT ![p] = "end"]
    /\ UNCHANGED <<device, step, oid, desired_state, current_state,
                   has_changed, log, flags>>
    /\ ConcFrame

ConcNext ==
    \/ \E p \in Procs : ConcSkipSetting(p)
    \/ \E p \in Procs : ConcCompose(p)
    \/ \E p \in Procs : ConcGetFails(p)
    \/ \E p \in Procs : ConcGetEqual(p)
    \/ \E p \in Procs : ConcGetDiffers(p)
    \/ \E p \in Procs : ConcSetOk(p)
    \/ \E p \in Procs : ConcSetFails(p)
    \/ \E p \in Procs : ConcExitJson(p)

SpecConc == ConcInit /\ [][ConcNext]_vars

\* ============================================================ claims ====
Last(l) == l[Len(l)]

IsRequest(e) == e.op \in {"GET", "SET"}

OpsAt(x) == {i \in 1..Len(log) : IsRequest(log[i]) /\ log[i].oid = x}

SetsAt(x) == {i \in 1..Len(log) : log[i].op = "SET" /\ log[i].oid = x}

SetsIssued == {i \in 1..Len(log) : log[i].op = "SET"}

\* Position in main() of the setting an OID belongs to.
Rank(x) ==
    CASE x[1] \in {"cdpGlobalRun", "vlanTrunkPortDynamicState"} -> 1
      [] x[1] \in {"cdpInterfaceEnable", "vmVlan"} -> 2
      [] x[1] = "vlanTrunkPortNativeVlan" -> 3
      [] OTHER -> 0

\* C1: when the GET of set_state returns the desired value, set_state issues
\* no SET and returns False, and no OID of the device changes value.
C1_NoWriteWhenEqual ==
    [][(/\ pc = "get"
        /\ Len(log') = Len(log) + 1
        /\ Last(log').op = "GET"
        /\ Last(log').ok
        /\ Last(log').val = desired_state)
       => (/\ device' = device
           /\ pc' = "main"
           /\ step' = step + 1
           /\ flags' = Append(flags, FALSE)
           /\ SetsAt(oid)' = {})]_vars

C1_Witness ==
    /\ pc = "main"
    /\ log # <<>>
    /\ Last(log).op = "GET"
    /\ Last(log).ok
    /\ Last(log).val = desired_state
    /\ flags # <<>>
    /\ ~Last(flags)
    /\ device = dev0

\* C2: when the GET succeeds with a value other than the desired one and
\* the SET succeeds, exactly one SET was issued, it wrote the desired value at
\* the OID that was read, set_state returned True, and the device holds the
\* desired value at that OID.
C2_SingleWriteOnDivergence ==
    /\ (pc = "set") =>
          /\ Last(log).op = "GET"
          /\ Last(log).ok
          /\ Last(log).oid = oid
          /\ Last(log).val # desired_state
    /\ (pc \in {"main", "end"} /\ log # <<>> /\ Last(log).op = "SET"
           /\ Last(log).ok) =>
          /\ Len(log) >= 2
          /\ log[Len(log) - 1].op = "GET"
          /\ log[Len(log) - 1].ok
          /\ log[Len(log) - 1].oid = Last(log).oid
          /\ log[Len(log) - 1].val # Last(log).val
          /\ Last(log).oid = oid
          /\ Last(log).val = desired_state
          /\ Cardinality(SetsAt(oid)) = 1
          /\ device[oid] = desired_state
          /\ flags # <<>>
          /\ Last(flags) = TRUE

C2_Witness ==
    /\ pc = "main"
    /\ log # <<>>
    /\ Last(log).op = "SET"
    /\ Last(log).ok
    /\ dev0[oid] # desired_state
    /\ device[oid] = desired_state
    /\ Last(flags) = TRUE

\* C3: once a run of a task has completed successfully, a later run of the
\* same task that addresses the same interface issues no SET and, when it
\* completes, reports changed = false.
C3_InvocationIdempotence ==
    (run >= 2 /\ prev.ok /\ pc # "resolve" /\ interface = prev.interface) =>
        /\ SetsIssued = {}
        /\ pc # "set"
        /\ device = dev0
        /\ (result.status = "exit" => ~result.changed)

C3_Witness ==
    /\ run >= 2
    /\ prev.ok
    /\ prev.changed
    /\ interface = prev.interface
    /\ result.status = "exit"
    /\ ~result.changed
    /\ Len(log) >= 2

\* C4: when a GET or a SET of an invocation fails, it is the last request of
\* the invocation, the invocation has failed, and no request was issued for a
\* setting that comes later in the order than the one that failed.
C4_FailFast ==
    \A i \in 1..Len(log) :
        (IsRequest(log[i]) /\ ~log[i].ok) =>
            /\ i = Len(log)
            /\ pc = "end"
            /\ result.status = "fail"
            /\ result.stage \in {"read", "write"}
            /\ \A j \in 1..Len(log) :
                   IsRequest(log[j]) => Rank(log[j].oid) <= Rank(log[i].oid)

C4_Witness ==
    /\ m_args.module = "switchport"
    /\ Requested(m_args, "access_vlan")
    /\ Requested(m_args, "native_vlan")
    /\ IsNumeric(m_args.native_vlan)
    /\ result.stage = "write"
    /\ Last(log).op = "SET"
    /\ Last(log).oid[1] = "vmVlan"
    /\ OpsAt(<<"vlanTrunkPortNativeVlan", interface>>) = {}
    /\ OpsAt(<<"vlanTrunkPortDynamicState", interface>>) # {}

\* C5: when a GET fails, the invocation fails at the read stage, that OID was
\* read once and never written, and nothing was requested after the failed GET.
C5_ReadFailureAborts ==
    \A i \in 1..Len(log) :
        (log[i].op = "GET" /\ ~log[i].ok) =>
            /\ pc = "end"
            /\ result.status = "fail"
            /\ result.stage = "read"
            /\ result.msg = "str(err)"
            /\ OpsAt(log[i].oid) = {i}
            /\ i = Len(log)

C5_Witness ==
    /\ log # <<>>
    /\ Last(log).op = "GET"
    /\ ~Last(log).ok
    /\ result.stage = "read"
    /\ Len(flags) >= 1
    /\ step < Len(Order)
    /\ Requested(m_args, Order[step + 1])

\* C6: the requests of an invocation come in the order of the settings: all
\* requests on the mode OID, then all on the access-VLAN OID, then all on the
\* native-VLAN OID; only requested settings are addressed.
C6_SettingOrder ==
    \A j \in 1..Len(log) :
        IsRequest(log[j]) =>
            /\ Rank(log[j].oid) \in 1..Len(Order)
            /\ BaseOid(Order[Rank(log[j].oid)]) = log[j].oid[1]
            /\ Requested(m_args, Order[Rank(log[j].oid)])
            /\ \A i \in 1..j : IsRequest(log[i]) =>
                                  Rank(log[i].oid) <= Rank(log[j].oid)

C6_Witness ==
    /\ m_args.module = "switchport"
    /\ result.status = "exit"
    /\ ~Requested(m_args, "access_vlan")
    /\ Len(log) >= 3
    /\ log[1].oid[1] = "vlanTrunkPortDynamicState"
    /\ Last(log).oid[1] = "vlanTrunkPortNativeVlan"

\* C7: an invocation that completes reports changed = true exactly when one
\* of its set_state calls returned True.
C7_ChangedIsOr ==
    (result.status = "exit") =>
        (result.changed <=> \E i \in 1..Len(flags) : flags[i])

C7_Witness ==
    /\ result.status = "exit"
    /\ Len(flags) >= 2
    /\ flags[1]
    /\ ~Last(flags)
    /\ result.changed

\* Rows of the walked table whose description is the requested name.
Matches(table, name) ==
    {i \in 1..Len(table) : \E k \in 1..Len(table[i]) : table[i][k][2] = name}

Walked == log # <<>> /\ log[1].op = "GETNEXT" /\ log[1].ok

\* C8: after a walk in which some row has the requested description, the
\* interface index is the last OID component of the last such row, and every
\* later request of the invocation addresses that index.
C8_LastMatchWins ==
    (Walked /\ Matches(vartable, m_args.interface_name) # {}) =>
        LET rows == Matches(vartable, m_args.interface_name)
            last == CHOOSE i \in rows : \A k \in rows : k <= i
        IN /\ interface = vartable[last][1][1][2]
           /\ result.stage # "resolve"
           /\ \A j \in 2..Len(log) : log[j].oid[2] = interface

C8_Witness ==
    /\ Walked
    /\ Cardinality(Matches(vartable, m_args.interface_name)) >= 2
    /\ Len(log) >= 2
    /\ Last(log).oid[2] = interface
    /\ interface = vartable[Len(vartable)][1][1][2]

\* C9: after a walk in which no row has the requested description, the
\* invocation has failed with 'Unable to find interface', the walk is its
\* only request, and the device is as it was.
C9_InterfaceNotFound ==
    (Walked /\ Matches(vartable, m_args.interface_name) = {}) =>
        /\ pc = "end"
        /\ result.status = "fail"
        /\ result.msg = "Unable to find interface"
        /\ Len(log) = 1
        /\ device = dev0

C9_Witness ==
    /\ Walked
    /\ Len(vartable) >= 1
    /\ Matches(vartable, m_args.interface_name) = {}
    /\ result.msg = "Unable to find interface"

\* C10: every label the argument validation accepts is a key of the table it
\* is looked up in, so no lookup raises KeyError; and the tables hold
\* enabled=1, disabled=2, trunk=1, access=2, desirable=3, auto=4,
\* trunk-nonegotiate=5.
C10_ClosedEnumeration ==
    /\ (run > 0 /\ ArgumentsValid(m_args)) =>
          /\ m_args.module = "switchport" => m_args.mode \in DOMAIN PORT_MODE
          /\ \A k \in {"cdp_global", "cdp_interface"} :
                 m_args[k] # NONE => m_args[k] \in DOMAIN CDP_STATE
          /\ result.msg # "KeyError"
    /\ CDP_STATE["enabled"] = 1
    /\ CDP_STATE["disabled"] = 2
    /\ PORT_MODE["trunk"] = 1
    /\ PORT_MODE["access"] = 2
    /\ PORT_MODE["desirable"] = 3
    /\ PORT_MODE["auto"] = 4
    /\ PORT_MODE["trunk-nonegotiate"] = 5

\* C11: when a SET fails, the invocation fails with 'Unable to write to
\* device', the failed SET is its last request, and every OID written
\* successfully before it still holds the value written.
C11_NoRollback ==
    \A i \in 1..Len(log) :
        (log[i].op = "SET" /\ ~log[i].ok) =>
            /\ i = Len(log)
            /\ pc = "end"
            /\ result.status = "fail"
            /\ result.msg = "Unable to write to device"
            /\ \A j \in 1..(i - 1) :
                   (log[j].op = "SET" /\ log[j].ok) =>
                       device[log[j].oid] = log[j].val

C11_Witness ==
    /\ log # <<>>
    /\ Last(log).op = "SET"
    /\ ~Last(log).ok
    /\ result.msg = "Unable to write to device"
    /\ \E j \in 1..Len(log) :
          /\ log[j].op = "SET"
          /\ log[j].ok
          /\ dev0[log[j].oid] # log[j].val
          /\ device[log[j].oid] = log[j].val

\* C12: when two concurrent invocations have both completed, every OID
\* that was written holds the value of the last SET the device received for
\* it, and every other OID holds its initial value.
C12_LastWriteWins ==
    (\A p \in Procs : result[p].status = "exit") =>
        \A x \in DOMAIN device :
            IF SetsAt(x) = {} THEN device[x] = dev0[x]
            ELSE LET last == CHOOSE i \in SetsAt(x) :
                                \A k \in SetsAt(x) : k <= i
                 IN device[x] = log[last].val

\* Both invocations completed, they wrote different values to the same OID,
\* and the device does not hold the value one of them asked for.
C12_Witness ==
    /\ \A p \in Procs : result[p].status = "exit"
    /\ \E p, q \in Procs :
          /\ p # q
          /\ oid[p] = oid[q]
          /\ desired_state[p] # desired_state[q]
          /\ result[p].changed
          /\ result[q].changed
          /\ Cardinality(SetsAt(oid[p])) = 2
          /\ device[oid[p]] # desired_state[p]
          /\ device[oid[p]] = desired_state[q]

\* The invocation got past validation, session construction and resolution.
Started ==
    /\ run > 0
    /\ pc # "resolve"
    /\ result.stage \notin {"arguments", "session"}

\* C13: when an interface id is given, `interface` is exactly that id, every
\* per-interface request addresses it, and no walk (nor any other read that
\* is not the GET of a setting) is issued.
C13_InterfaceIdUnchanged ==
    (Started /\ Truthy(m_args.interface_id)) =>
        /\ interface = m_args.interface_id
        /\ \A i \in 1..Len(log) :
               /\ IsRequest(log[i])
               /\ log[i].oid[1] \in InterfaceBases
               /\ log[i].oid[2] = m_args.interface_id

C13_Witness ==
    /\ Started
    /\ m_args.interface_id = "2"
    /\ result.status = "exit"
    /\ Len(log) >= 3
    /\ \A i \in 1..Len(log) : log[i].oid[2] = "2"

\* C14: after a walk in which the number of rows with the requested
\* description is not exactly one, the invocation has failed and the walk is
\* its only request.
C14_ExactlyOneMatch ==
    (Walked /\ Cardinality(Matches(vartable, m_args.interface_name)) # 1) =>
        /\ pc = "end"
        /\ result.status = "fail"
        /\ Len(log) = 1

\* C15: when the walk raises, the invocation fails with the text of the
\* exception, the walk is its only request, and the device is as it was.
C15_WalkFailureAborts ==
    (\E i \in 1..Len(log) : log[i].op = "GETNEXT" /\ ~log[i].ok) =>
        /\ pc = "end"
        /\ result.status = "fail"
        /\ result.stage = "walk"
        /\ result.msg = "str(err)"
        /\ Len(log) = 1
        /\ flags = <<>>
        /\ device = dev0

C15_Witness ==
    /\ log # <<>>
    /\ log[1].op = "GETNEXT"
    /\ ~log[1].ok
    /\ result.stage = "walk"
    /\ Requested(m_args, Order[1])

\* Requests of the running invocation on the OIDs of a setting.
OpsOn(setting) ==
    {i \in 1..Len(log) : IsRequest(log[i]) /\ log[i].oid[1] = BaseOid(setting)}

\* C16: a VLAN given as "12" is reconciled as the integer 12; a VLAN given
\* as "abc" ends the invocation with a ValueError when its turn comes, and
\* its OID is neither read nor written.
C16_VlanCodec ==
    (Started /\ m_args.module = "switchport") =>
        \A k \in 2..3 :
            LET setting == Order[k]
            IN /\ (m_args[setting] = <<"1", "2">>) =>
                     /\ (pc \in {"get", "set"} /\ step = k) =>
                            desired_state = 12
                     /\ \A i \in OpsOn(setting) :
                            /\ log[i].op = "SET" => log[i].val = 12
                            /\ (log[i].op = "GET" /\ log[i].ok
                                  /\ log[i].val = 12) =>
                                   (i = Len(log) \/ log[i + 1].op # "SET")
               /\ (m_args[setting] = <<"a", "b", "c">>) =>
                     /\ OpsOn(setting) = {}
                     /\ step <= k
                     /\ result.status # "exit"
                     /\ (pc = "end" /\ step = k) =>
                            /\ result.status = "crash"
                            /\ result.msg = "ValueError"

C16_Witness ==
    /\ Started
    /\ m_args.access_vlan = <<"1", "2">>
    /\ m_args.native_vlan = <<"a", "b", "c">>
    /\ \E i \in OpsOn("access_vlan") : log[i].op = "SET" /\ log[i].val = 12
    /\ device[<<"vmVlan", interface>>] = 12
    /\ result.msg = "ValueError"
    /\ OpsOn("native_vlan") = {}

\* Indices of the rows of the walked table that have the requested name.
MatchingIndices ==
    {vartable[i][1][1][2] : i \in Matches(vartable, m_args.interface_name)}

\* The OID has the shape the invocation must use for it.
WellFormedOid(x) ==
    IF x[1] = "cdpGlobalRun" THEN x[2] = "0"
    ELSE /\ x[1] \in InterfaceBases
         /\ x[2] = interface
         /\ x[2] \in IfIndices
         /\ Truthy(m_args.interface_id) => x[2] = m_args.interface_id
         /\ Truthy(m_args.interface_name) => x[2] \in MatchingIndices

\* C17: every GET and SET addresses <base>.0 for the global CDP setting and
\* <base>.<interface index> for a per-interface setting, the index being the
\* one the invocation resolved, the same for all its settings.
C17_OidShape ==
    /\ \A i \in 1..Len(log) : IsRequest(log[i]) => WellFormedOid(log[i].oid)
    /\ (run > 0 /\ pc \in {"get", "set"}) => WellFormedOid(oid)

C17_Witness ==
    /\ Walked
    /\ result.status = "exit"
    /\ interface = "2"
    /\ OpsOn("mode") # {}
    /\ OpsOn("access_vlan") # {}
    /\ OpsOn("native_vlan") # {}
    /\ \A i \in 2..Len(log) : log[i].oid[2] = "2"

\* C18: in the CDP module, for arguments the validation accepts, an
\* invocation makes at most one set_state call and exactly one when it
\* completes; the global setting involves no walk; the per-interface setting
\* is composed with an interface index defined by exactly one of
\* interface_id and interface_name, so composing its OID never fails.
C18_OneReconcileCall ==
    (run > 0 /\ m_args.module = "cdp" /\ ArgumentsValid(m_args)) =>
        /\ Cardinality({i \in 1..Len(log) : log[i].op = "GET"}) <= 1
        /\ Truthy(m_args.cdp_global) =>
              \A i \in 1..Len(log) : log[i].oid = <<"cdpGlobalRun", "0">>
        /\ (Truthy(m_args.cdp_interface) /\ pc \in {"main", "get", "set"}) =>
              /\ interface \in IfIndices
              /\ Truthy(m_args.interface_id) # Truthy(m_args.interface_name)
        /\ result.status # "crash"
        /\ result.status = "exit" => Len(flags) = 1

GetsAt(x) == {i \in 1..Len(log) : log[i].op = "GET" /\ log[i].oid = x}

RequestedSettings ==
    {k \in 1..Len(Order) : Requested(m_args, Order[k])}

\* C19: every SET of an invocation comes right after a successful GET of the
\* same OID that returned another value than the one written; an OID is read
\* at most once and written at most once, and there are no more SETs than
\* requested settings.
C19_NoBlindWrites ==
    /\ \A i \in 1..Len(log) :
           log[i].op = "SET" =>
               /\ i >= 2
               /\ log[i - 1].op = "GET"
               /\ log[i - 1].ok
               /\ log[i - 1].oid = log[i].oid
               /\ log[i - 1].val # log[i].val
    /\ \A i \in 1..Len(log) :
           IsRequest(log[i]) =>
               /\ Cardinality(GetsAt(log[i].oid)) <= 1
               /\ Cardinality(SetsAt(log[i].oid)) <= 1
    /\ run > 0 => Cardinality(SetsIssued) <= Cardinality(RequestedSettings)

C19_Witness ==
    /\ result.status = "exit"
    /\ Cardinality(SetsIssued) = 3
    /\ Len(log) = 6
    /\ \A i \in SetsIssued : log[i - 1].val = dev0[log[i].oid]

\* C20: an invocation that completes reports changed = true exactly when it
\* issued a SET that succeeded; when it reports changed = false it issued no
\* SET and the device is as the invocation found it.
C20_ChangedIsFaithful ==
    (result.status = "exit") =>
        /\ result.changed <=> \E i \in SetsIssued : log[i].ok
        /\ ~result.changed => (SetsIssued = {} /\ device = dev0)
        /\ result.changed => device # dev0

C20_Witness ==
    /\ result.status = "exit"
    /\ result.changed
    /\ Len(flags) >= 2
    /\ ~Last(flags)
    /\ Cardinality(SetsIssued) = 1
    /\ device # dev0

====
